---- MODULE Spec2Model ----
(***************************************************************************)
(* A state-machine model of src/context-menu.js: the module-level state    *)
(* (activeMenus, submenuTimer, rootMenu), the per-element bookkeeping      *)
(* object __ctxMenu, the part of the DOM tree the menus live in, and the   *)
(* event handlers (window mousedown, item click / mouseenter / mouseleave, *)
(* the 600 ms timeout) together with the public API create / render /      *)
(* removeAll.                                                              *)
(***************************************************************************)
EXTENDS Integers, Sequences, FiniteSets, TLC

\* ------------------------------------------------------------------ bounds

\* Number of menu elements createContextMenu may build in one behaviour.
MaxNodes == 4

\* Mouse coordinates range over 0..MaxCoord on both axes.
MaxCoord == 1

\* Measured menu panels are 1..MaxSide wide and high.
MaxSide == 3

\* Viewports are 2..MaxView wide and high; anchors lie in -MaxSide..MaxView.
MaxView == 4

\* ------------------------------------------------------------- JS values

Null == 0               \* null as an element reference
NoItem == << 0, 0 >>    \* null as a timeout handle
Body == << 0, 1 >>      \* document.body as a DOM parent
Detached == << 0, 2 >>  \* no DOM parent

\* A menu item object literal { text, click, enabled, divider }.
\* click is a function (ref names the user's callback), an array of items
\* (ref names the nested menu object) or absent.
Item(divider, type, ref, enabled) ==
    [divider |-> divider, type |-> type, ref |-> ref, enabled |-> enabled]

FnItem(cb, enabled) == Item(FALSE, "function", cb, enabled)
SubItem(menu, enabled) == Item(FALSE, "object", menu, enabled)
DividerItem == Item(TRUE, "undefined", "", "undefined")

\* An item with none of click (function or array) and divider set.
MalformedItem == Item(FALSE, "undefined", "", "undefined")

\* The menu objects the page passes to ctxMenus.create().  "default" is the
\* default value of createContextMenu's menuObject parameter.
MenuNames == {"main", "sub", "leaf", "default"}

UserMenus ==
    [m \in MenuNames |->
        CASE m = "main" -> << FnItem("noop", "false"),
                              SubItem("sub", "undefined"),
                              DividerItem >>
          [] m = "sub" -> << SubItem("leaf", "false"), FnItem("open", "true"),
                             MalformedItem >>
          [] m = "leaf" -> << FnItem("noop", "undefined") >>
          [] m = "default" -> << FnItem("noop", "undefined") >>]

\* The menu objects a caller opens as a root menu.
RootMenus == {"main"}

\* The menu object the "open" callback opens as a new root menu.
CallbackMenu == "default"

\* Values handed to render(): an element created by createContextMenu, or a
\* plain menu object array.
Element(n) == [kind |-> "element", ref |-> n, name |-> ""]
ArrayValue(m) == [kind |-> "array", ref |-> 0, name |-> m]

\* ------------------------------------------------------------------ state

VARIABLES
    activeMenus,        \* let activeMenus = []   (sequence of element ids)
    submenuTimer,       \* let submenuTimer = null (last timeout handle)
    rootMenu,           \* let rootMenu = null
    activeSubmenu,      \* element -> __ctxMenu.activeSubmenu
    parentCtxMenuItem,  \* element -> __ctxMenu.parentCtxMenuItem
    menuObject,         \* element -> __ctxMenu.menuObject (a menu name)
    parentNode,         \* element -> its DOM parent: Body, Detached or an item
    pendingTimers,      \* timeout handles scheduled and neither fired nor cleared
    err,                \* outcome of the last handler: "none" or the exception
    path,               \* click listeners still to run for the click in dispatch
    callback,           \* item whose click callback onClick is invoking, or NoItem
    dummyBounds,        \* render: bounds = dummyMenu.getBoundingClientRect()
    viewportBounds,     \* render: viewportBounds
    calculatedTop,      \* render: calculatedTop
    calculatedLeft,     \* render: calculatedLeft
    placed,             \* whether render has chosen the direction
    openedRoot          \* root element opened by a callback of the click whose
                        \* dispatch is running or has just finished, or Null

\* The locals of render's placement computation.
placement ==
    << dummyBounds, viewportBounds, calculatedTop, calculatedLeft, placed >>

vars == << activeMenus, submenuTimer, rootMenu, activeSubmenu, parentCtxMenuItem,
           menuObject, parentNode, pendingTimers, err, path, callback,
           dummyBounds, viewportBounds, calculatedTop, calculatedLeft, placed,
           openedRoot >>

\* Elements created so far: createContextMenu numbers them 1, 2, ...
Created == DOMAIN menuObject

Range(s) == {s[i] : i \in 1..Len(s)}

\* The item element j of menu element n, as a DOM location / timeout handle.
ItemOf(n, j) == << n, j >>

ItemObj(n, j) == UserMenus[menuObject[n]][j]

ItemsOf(n) == 1..Len(UserMenus[menuObject[n]])

\* element.isConnected: the parentNode chain reaches document.body.
RECURSIVE Connected(_, _)
Connected(pn, n) ==
    IF pn[n] = Body THEN TRUE
    ELSE IF pn[n] = Detached THEN FALSE
    ELSE Connected(pn, pn[n][1])

Attached(n) == Connected(parentNode, n)

AttachedNodes == {n \in Created : Attached(n)}

Roots == {n \in Created : parentCtxMenuItem[n] = "null"}

Idle == path = << >> /\ callback = NoItem

\* The mutable program state as one value, threaded through the functions.
Heap ==
    [activeMenus |-> activeMenus, submenuTimer |-> submenuTimer,
     rootMenu |-> rootMenu, activeSubmenu |-> activeSubmenu,
     parentCtxMenuItem |-> parentCtxMenuItem, menuObject |-> menuObject,
     parentNode |-> parentNode, pendingTimers |-> pendingTimers, err |-> "none"]

Install(s) ==
    /\ activeMenus' = s.activeMenus
    /\ submenuTimer' = s.submenuTimer
    /\ rootMenu' = s.rootMenu
    /\ activeSubmenu' = s.activeSubmenu
    /\ parentCtxMenuItem' = s.parentCtxMenuItem
    /\ menuObject' = s.menuObject
    /\ parentNode' = s.parentNode
    /\ pendingTimers' = s.pendingTimers
    /\ err' = s.err

\* DOMRect of a panel whose top-left is (x, y) and whose size is w by h.
Rect(x, y, w, h) ==
    [left |-> x, top |-> y, right |-> x + w, bottom |-> y + h,
     width |-> w, height |-> h]

\* { top: 0, right: window.innerWidth, left: 0, bottom: window.innerHeight }
Viewport(w, h) == [top |-> 0, right |-> w, left |-> 0, bottom |-> h]

\* The state before any element exists.
NoMenus ==
    /\ activeMenus = << >>
    /\ submenuTimer = NoItem
    /\ rootMenu = Null
    /\ activeSubmenu = << >>
    /\ parentCtxMenuItem = << >>
    /\ menuObject = << >>
    /\ parentNode = << >>
    /\ pendingTimers = {}
    /\ err = "none"
    /\ path = << >>
    /\ callback = NoItem
    /\ openedRoot = Null

Init ==
    /\ NoMenus
    /\ dummyBounds = Rect(0, 0, 1, 1)
    /\ viewportBounds = Viewport(MaxView, MaxView)
    /\ calculatedTop = 0
    /\ calculatedLeft = 0
    /\ placed = FALSE

\* ------------------------------------------------------------- functions

\* Element.remove(): detach the element from its DOM parent.
remove(s, n) == [s EXCEPT !.parentNode[n] = Detached]

\* menu.remove() for each element of a sequence, in order.
RECURSIVE removeEach(_, _)
removeEach(s, seq) ==
    IF seq = << >> THEN s ELSE removeEach(remove(s, Head(seq)), Tail(seq))

\* function removeAll()
removeAll(s) == [removeEach(s, s.activeMenus) EXCEPT !.rootMenu = Null]

\* function recursivelyCloseChildren(ctxMenu): the elements it removes, in
\* the order it removes them.
RECURSIVE closedBy(_, _)
closedBy(s, ctxMenu) ==
    IF s.activeSubmenu[ctxMenu] # Null
    THEN closedBy(s, s.activeSubmenu[ctxMenu]) \o << s.activeSubmenu[ctxMenu] >>
    ELSE << >>

recursivelyCloseChildren(s, ctxMenu) == removeEach(s, closedBy(s, ctxMenu))

\* function resetHoverTimer(): clearTimeout(submenuTimer)
resetHoverTimer(s) == [s EXCEPT !.pendingTimers = @ \ {s.submenuTimer}]

\* function createContextMenu(menuObject, options, parent); the new element
\* is Len(s.menuObject) + 1.  mo = "undefined" takes the parameter's default.
createContextMenu(s, mo, parent) ==
    LET ctxMenu == Len(s.menuObject) + 1
        s1 == [s EXCEPT !.activeSubmenu = Append(@, Null),
                        !.parentCtxMenuItem = Append(@, parent),
                        !.menuObject =
                            Append(@, IF mo = "undefined" THEN "default" ELSE mo),
                        !.parentNode = Append(@, Detached)]
        s2 == IF parent = "null"
              THEN [removeAll(s1) EXCEPT !.rootMenu = ctxMenu]
              ELSE s1
    IN  [s2 EXCEPT !.activeMenus = Append(@, ctxMenu)]

\* spawnSubmenu that leaves createContextMenu's parent argument out, so the
\* submenu is created as a root.
spawnSubmenuNoParent(s, n, j) ==
    LET clickObject == IF ItemObj(n, j).type = "object"
                       THEN ItemObj(n, j).ref ELSE "undefined"
        newSubmenu == Len(s.menuObject) + 1
        s1 == createContextMenu(s, clickObject, "null")
    IN  [s1 EXCEPT !.activeSubmenu[n] = newSubmenu,
                   !.parentNode[newSubmenu] = ItemOf(n, j)]

\* spawnSubmenu that also links the new submenu back to the menu it belongs to
\* through activeSubmenu.
spawnSubmenuBackLink(s, n, j) ==
    LET clickObject == IF ItemObj(n, j).type = "object"
                       THEN ItemObj(n, j).ref ELSE "undefined"
        newSubmenu == Len(s.menuObject) + 1
        s1 == createContextMenu(s, clickObject, "number")
    IN  [s1 EXCEPT !.activeSubmenu[n] = newSubmenu,
                   !.activeSubmenu[newSubmenu] = n,
                   !.parentNode[newSubmenu] = ItemOf(n, j)]

\* function spawnSubmenu(menuObject, appendElement, x, y) in the closure of
\* item j of element n: createContextMenu receives x as options and y (a
\* number) as parent.
spawnSubmenu(s, n, j) ==
    LET clickObject == IF ItemObj(n, j).type = "object"
                       THEN ItemObj(n, j).ref ELSE "undefined"
        newSubmenu == Len(s.menuObject) + 1
        s1 == createContextMenu(s, clickObject, "number")
    IN  [s1 EXCEPT !.activeSubmenu[n] = newSubmenu,
                   !.parentNode[newSubmenu] = ItemOf(n, j)]

\* function render(contextMenuElement, x, y, parentMenuItemDiv): cloneNode
\* exists on elements only; the real menu ends up appended to document.body.
render(s, contextMenuElement) ==
    IF contextMenuElement.kind = "element"
    THEN [s EXCEPT !.parentNode[contextMenuElement.ref] = Body]
    ELSE [s EXCEPT !.err = "TypeError"]

\* let enabled; if (enabled == false) enabled = false; else enabled = true;
\* the local is never assigned from itemObj.enabled.
enabled(itemObj) ==
    LET declared == "undefined"
    IN  IF declared = "false" THEN FALSE ELSE TRUE

\* --------------------------------------------------------------- geometry

\* getBoundingClientRect() of an element that is not in the document.
ZeroRect == [left |-> 0, right |-> 0, top |-> 0, bottom |-> 0]

\* Rectangles the layout engine may report for a rendered menu: one that
\* covers the whole pointer range and one beyond it.
LayoutRects ==
    { [left |-> 0, right |-> MaxCoord, top |-> 0, bottom |-> MaxCoord],
      [left |-> MaxCoord + 1, right |-> MaxCoord + 2, top |-> 0, bottom |-> MaxCoord] }

Coords == 0..MaxCoord

\* menu.getBoundingClientRect() under the layout `rects` of the attached menus.
BoundsOf(rects, n) == IF Attached(n) THEN rects[n] ELSE ZeroRect

\* !(mouseX < left || mouseX > right || mouseY < top || mouseY > bottom)
Inside(mouseX, mouseY, bounds) ==
    ~(mouseX < bounds.left \/ mouseX > bounds.right
        \/ mouseY < bounds.top \/ mouseY > bounds.bottom)

\* ---------------------------------------------------------------- actions

\* ctxMenus.create(menuObject) with the default options and parent.
Create(mo) ==
    /\ Idle
    /\ Len(menuObject) < MaxNodes
    /\ Install(createContextMenu(Heap, mo, "null"))
    /\ openedRoot' = Null
    /\ UNCHANGED << path, callback, placement >>

\* ctxMenus.render(n, x, y) on an element ctxMenus.create returned.
Render(n) ==
    /\ Idle
    /\ n \in Roots
    /\ Install(render(Heap, Element(n)))
    /\ openedRoot' = Null
    /\ UNCHANGED << path, callback, placement >>

\* ctxMenus.removeAll()
RemoveAll ==
    /\ Idle
    /\ Install(removeAll(Heap))
    /\ openedRoot' = Null
    /\ UNCHANGED << path, callback, placement >>

\* The window mousedown listener, for a pointer at (mouseX, mouseY) while the
\* attached menus are laid out as `rects`.
MouseDownHeap(s, mouseX, mouseY, rects) ==
    LET hits == {i \in 1..Len(s.activeMenus) :
                    Inside(mouseX, mouseY, BoundsOf(rects, s.activeMenus[i]))}
    IN  IF hits # {}
        THEN LET first == CHOOSE i \in hits : \A k \in hits : i <= k
             IN  recursivelyCloseChildren(s, s.activeMenus[first])
        ELSE removeAll(s)

MouseDown(mouseX, mouseY, rects) ==
    /\ Idle
    /\ Install(MouseDownHeap(Heap, mouseX, mouseY, rects))
    /\ openedRoot' = Null
    /\ UNCHANGED << path, callback, placement >>

\* The click listeners a click on item j of element n reaches, target first:
\* a submenu element is a DOM child of the item that spawned it, so the click
\* bubbles through that item and on up to document.body.
RECURSIVE BubblePath(_)
BubblePath(n) ==
    IF parentNode[n] \in {Body, Detached} THEN << >>
    ELSE << parentNode[n] >> \o BubblePath(parentNode[n][1])

ClickPath(n, j) ==
    (IF ItemObj(n, j).divider THEN << >> ELSE << ItemOf(n, j) >>) \o BubblePath(n)

\* Elements the listeners of a path will create.
RECURSIVE Creations(_)
Creations(p) ==
    IF p = << >> THEN 0
    ELSE LET itemObj == ItemObj(Head(p)[1], Head(p)[2])
         IN  (IF itemObj.type = "function" /\ itemObj.ref # "open" THEN 0 ELSE 1)
                + Creations(Tail(p))

\* The user clicks item j of an attached menu element n.
Click(n, j) ==
    /\ Idle
    /\ n \in AttachedNodes
    /\ j \in ItemsOf(n)
    /\ Len(menuObject) + Creations(ClickPath(n, j)) <= MaxNodes
    /\ path' = ClickPath(n, j)
    /\ openedRoot' = Null
    /\ UNCHANGED << activeMenus, submenuTimer, rootMenu, activeSubmenu,
                    parentCtxMenuItem, menuObject, parentNode, pendingTimers,
                    err, callback, placement >>

\* function onClick(e) of item j of element n, up to the call of itemObj.click.
onClick(s, n, j) ==
    IF ~enabled(ItemObj(n, j)) THEN s
    ELSE IF ItemObj(n, j).type = "function"
    THEN removeAll(IF s.submenuTimer # NoItem THEN resetHoverTimer(s) ELSE s)
    ELSE spawnSubmenu(resetHoverTimer(s), n, j)

\* Whether onClick goes on to call itemObj.click().
CallsBack(n, j) == enabled(ItemObj(n, j)) /\ ItemObj(n, j).type = "function"

\* The next click listener on the bubble path runs.
OnClick ==
    /\ path # << >>
    /\ callback = NoItem
    /\ LET n == Head(path)[1]
           j == Head(path)[2]
       IN  /\ Install(onClick(Heap, n, j))
           /\ callback' = IF CallsBack(n, j) THEN Head(path) ELSE NoItem
    /\ path' = Tail(path)
    /\ UNCHANGED << placement, openedRoot >>

\* The body of the user's callback: "noop" does nothing, "open" opens a new
\* root menu with ctxMenus.render(ctxMenus.create(menuObject), x, y).
CallbackHeap(s, cb) ==
    IF cb = "open"
    THEN render(createContextMenu(s, CallbackMenu, "null"),
                Element(Len(s.menuObject) + 1))
    ELSE s

\* itemObj.click() runs and returns to onClick.
Callback ==
    /\ callback # NoItem
    /\ Install(CallbackHeap(Heap, ItemObj(callback[1], callback[2]).ref))
    /\ callback' = NoItem
    /\ openedRoot' = IF ItemObj(callback[1], callback[2]).ref = "open"
                     THEN Len(menuObject) + 1 ELSE openedRoot
    /\ UNCHANGED << path, placement >>

\* onMouseEntered without the reset of the previous timer.
onMouseEnteredNoReset(s, n, j) ==
    [s EXCEPT !.submenuTimer = ItemOf(n, j),
              !.pendingTimers = @ \cup {ItemOf(n, j)}]

\* function onMouseEntered(e) of item j of element n.
onMouseEntered(s, n, j) ==
    LET s1 == IF s.submenuTimer # NoItem THEN resetHoverTimer(s) ELSE s
    IN  [s1 EXCEPT !.submenuTimer = ItemOf(n, j),
                   !.pendingTimers = @ \cup {ItemOf(n, j)}]

MouseEntered(n, j) ==
    /\ Idle
    /\ n \in AttachedNodes
    /\ j \in ItemsOf(n)
    /\ ~ItemObj(n, j).divider
    /\ Install(onMouseEntered(Heap, n, j))
    /\ openedRoot' = Null
    /\ UNCHANGED << path, callback, placement >>

\* mouseleave on item j of element n: resetHoverTimer.
MouseLeave(n, j) ==
    /\ Idle
    /\ n \in AttachedNodes
    /\ j \in ItemsOf(n)
    /\ ~ItemObj(n, j).divider
    /\ Install(resetHoverTimer(Heap))
    /\ openedRoot' = Null
    /\ UNCHANGED << path, callback, placement >>

\* The timeout callback scheduled by onMouseEntered of item h; `inside` is
\* the outcome of its bounds test.
onTimeout(s, h, inside) ==
    LET s1 == [s EXCEPT !.pendingTimers = @ \ {h}]
    IN  IF ~inside THEN s1
        ELSE IF ItemObj(h[1], h[2]).type = "object"
        THEN render(s1, ArrayValue(ItemObj(h[1], h[2]).ref))
        ELSE IF s1.submenuTimer # NoItem THEN resetHoverTimer(s1) ELSE s1

TimerFire(h, inside) ==
    /\ Idle
    /\ h \in pendingTimers
    /\ Install(onTimeout(Heap, h, inside))
    /\ openedRoot' = Null
    /\ UNCHANGED << path, callback, placement >>

Next ==
    \/ \E mo \in RootMenus : Create(mo)
    \/ \E n \in Created : Render(n)
    \/ RemoveAll
    \/ \E mouseX \in Coords, mouseY \in Coords :
        \E rects \in [AttachedNodes -> LayoutRects] :
            MouseDown(mouseX, mouseY, rects)
    \/ \E n \in Created : \E j \in ItemsOf(n) : Click(n, j)
    \/ OnClick
    \/ Callback
    \/ \E n \in Created : \E j \in ItemsOf(n) : MouseEntered(n, j)
    \/ \E n \in Created : \E j \in ItemsOf(n) : MouseLeave(n, j)
    \/ \E h \in pendingTimers : \E inside \in BOOLEAN : TimerFire(h, inside)

Spec == Init /\ [][Next]_vars

\* -------------------------------------------------------------- placement

Max(a, b) == IF a >= b THEN a ELSE b

\* function calculateOverflow(rect, viewportRect)
calculateOverflow(rect, viewportRect) ==
    [top |-> Max(viewportRect.top - rect.top, 0),
     right |-> Max(rect.right - viewportRect.right, 0),
     bottom |-> Max(rect.bottom - viewportRect.bottom, 0),
     left |-> Max(viewportRect.left - rect.left, 0)]

\* chosenSide with the first comparison chain written with <= for <.
chosenSideNotStrict(overflow) ==
    IF overflow.top <= overflow.bottom /\ overflow.top <= overflow.left
        /\ overflow.top <= overflow.right
    THEN "top"
    ELSE IF overflow.right < overflow.bottom /\ overflow.right < overflow.left
    THEN "right"
    ELSE IF overflow.bottom < overflow.left
    THEN "bottom"
    ELSE "left"

\* render, "Choose the direction with the smallest overflowing rect": the
\* branch taken for the overflow record.
chosenSide(overflow) ==
    IF overflow.top < overflow.bottom /\ overflow.top < overflow.left
        /\ overflow.top < overflow.right
    THEN "top"
    ELSE IF overflow.right < overflow.bottom /\ overflow.right < overflow.left
    THEN "right"
    ELSE IF overflow.bottom < overflow.left
    THEN "bottom"
    ELSE "left"

\* render: calculatedTop and calculatedLeft for the measured bounds of the
\* dummy menu.
calculatedPosition(b, viewport) ==
    LET overflow == calculateOverflow(b, viewport)
        side == chosenSide(overflow)
    IN  [top |-> IF side = "top" THEN b.top - overflow.top - b.height
                 ELSE IF side = "bottom" THEN b.top + overflow.bottom
                 ELSE b.top,
         left |-> IF side = "right" THEN b.left - overflow.right - b.width
                  ELSE IF side = "left" THEN b.left + overflow.left
                  ELSE b.left]

\* Measured bounds of the dummy menu and viewports the placement is run on:
\* a grid of small cases and the two worked examples of a 1920 x 1080 page.
PlacementInputs ==
    { << Rect(x, y, w, h), Viewport(vw, vh) >> :
        x \in -MaxSide..MaxView, y \in -MaxSide..MaxView,
        w \in 1..MaxSide, h \in 1..MaxSide,
        vw \in 2..MaxView, vh \in 2..MaxView }
    \cup { << Rect(1900, 10, 200, 100), Viewport(1920, 1080) >>,
           << Rect(10, 1000, 300, 300), Viewport(1920, 1080) >> }

\* render called with some anchor on some page, up to the measurement of the
\* dummy menu (lines 339-344).
PlacementInit ==
    /\ NoMenus
    /\ \E input \in PlacementInputs :
        /\ dummyBounds = input[1]
        /\ viewportBounds = input[2]
        /\ calculatedTop = input[1].top
        /\ calculatedLeft = input[1].left
    /\ placed = FALSE

\* render, lines 349-362.
Place ==
    /\ ~placed
    /\ calculatedTop' = calculatedPosition(dummyBounds, viewportBounds).top
    /\ calculatedLeft' = calculatedPosition(dummyBounds, viewportBounds).left
    /\ placed' = TRUE
    /\ UNCHANGED << activeMenus, submenuTimer, rootMenu, activeSubmenu,
                    parentCtxMenuItem, menuObject, parentNode, pendingTimers,
                    err, path, callback, dummyBounds, viewportBounds,
                    openedRoot >>

PlacementNext == Place

PlacementSpec == PlacementInit /\ [][PlacementNext]_vars

\* ----------------------------------------------------------------- claims

\* Elements in the document in heap s.
AttachedIn(s) == {n \in DOMAIN s.parentNode : Connected(s.parentNode, n)}

\* Submenu elements of n in the document: the attached elements whose DOM
\* parent is one of n's items.
AttachedSubmenus(n) == {c \in AttachedNodes : parentNode[c][1] = n}

\* Elements reachable from n through activeSubmenu links, n included.
RECURSIVE ChainFrom(_)
ChainFrom(n) ==
    IF n = Null THEN {} ELSE {n} \cup ChainFrom(activeSubmenu[n])

\* C1: in every reachable state no menu node has more than one submenu
\* spawned from its entries attached to the page at the same time.
C1_OneAttachedSubmenuPerNode ==
    \A n \in Created : Cardinality(AttachedSubmenus(n)) <= 1

\* C2: in every reachable state the registry activeMenus is empty or holds
\* exactly rootMenu and the nodes reachable from it through activeSubmenu,
\* holds no detached node, and rootMenu is null only when the registry is
\* empty.  Stated for the states in which no root is created but not yet
\* rendered.
C2_RegistryIsRootChain ==
    (Idle /\ (rootMenu # Null => Attached(rootMenu))) =>
        /\ rootMenu = Null => activeMenus = << >>
        /\ Range(activeMenus) = ChainFrom(rootMenu)
        /\ Range(activeMenus) \subseteq AttachedNodes

\* C3: at most one root menu is attached to the page in any reachable state,
\* under every interleaving of create and render calls.
C3_AtMostOneRootAttached ==
    Cardinality(Roots \cap AttachedNodes) <= 1

\* C4: immediately after removeAll returns, from any reachable state, no menu
\* node is attached, the registry is empty and the root reference is null.
C4_RemoveAllClearsEverything ==
    Idle =>
        LET t == removeAll(Heap)
        IN  /\ AttachedIn(t) = {}
            /\ t.activeMenus = << >>
            /\ t.rootMenu = Null

\* C5: after removeAll returns no hover timer is pending, and no timer fire
\* changes the registry, the attached set or any activeSubmenu link.
C5_RemoveAllCancelsTimer ==
    Idle =>
        /\ removeAll(Heap).pendingTimers = {}
        /\ \A h \in pendingTimers : \A inside \in BOOLEAN :
            LET t == onTimeout(Heap, h, inside)
            IN  /\ t.activeMenus = activeMenus
                /\ AttachedIn(t) = AttachedNodes
                /\ t.activeSubmenu = activeSubmenu

\* C6: for every attached node with an open-descendant chain,
\* recursivelyCloseChildren(node) ends with node attached, every node of the
\* chain below it detached and node's activeSubmenu unset.
C6_CloseDescendantsPostcondition ==
    \A n \in AttachedNodes :
        activeSubmenu[n] # Null =>
            LET t == recursivelyCloseChildren(Heap, n)
            IN  /\ n \in AttachedIn(t)
                /\ Range(closedBy(Heap, n)) \cap AttachedIn(t) = {}
                /\ t.activeSubmenu[n] = Null

\* C7: a pointer-down inside the bounds of an open submenu node, whatever
\* other nodes' bounds contain the point, detaches only the open descendants
\* of that submenu: its own panel and its ancestors stay attached.
C7_PointerDownInsideSubmenu ==
    Idle =>
        \A mouseX \in Coords, mouseY \in Coords :
            \A rects \in [AttachedNodes -> LayoutRects] :
                \A sub \in AttachedNodes \ Roots :
                    Inside(mouseX, mouseY, rects[sub]) =>
                        LET t == MouseDownHeap(Heap, mouseX, mouseY, rects)
                        IN  AttachedNodes \ AttachedIn(t)
                                \subseteq Range(closedBy(Heap, sub))

\* C8: a pointer-down outside the bounds of every attached menu panel closes
\* everything: after the event no menu node is attached.
C8_PointerDownOutsideClosesAll ==
    Idle =>
        \A mouseX \in Coords, mouseY \in Coords :
            \A rects \in [AttachedNodes -> LayoutRects] :
                (\A n \in AttachedNodes : ~Inside(mouseX, mouseY, rects[n])) =>
                    AttachedIn(MouseDownHeap(Heap, mouseX, mouseY, rects)) = {}

\* C9: at the moment the callback of a clicked Action entry starts executing,
\* the registry is empty and no menu node is attached.
C9_ClosedBeforeCallback ==
    (callback # NoItem /\ ItemObj(callback[1], callback[2]).enabled # "false") =>
        activeMenus = << >> /\ AttachedNodes = {}

\* C10: the click handler of an entry whose enabled flag is false leaves the
\* registry, the attached set, every activeSubmenu link and the root
\* reference unchanged and never invokes the entry's callback.
C10_DisabledClickIsNoop ==
    /\ callback # NoItem => ItemObj(callback[1], callback[2]).enabled # "false"
    /\ (path # << >> /\ callback = NoItem) =>
        LET n == Head(path)[1]
            j == Head(path)[2]
            t == onClick(Heap, n, j)
        IN  ItemObj(n, j).enabled = "false" =>
                /\ t.activeMenus = activeMenus
                /\ AttachedIn(t) = AttachedNodes
                /\ t.activeSubmenu = activeSubmenu
                /\ t.rootMenu = rootMenu

\* Overflow of the tentative rectangle, and of the rectangle render settles on.
TentativeOverflow == calculateOverflow(dummyBounds, viewportBounds)

FinalOverflow ==
    calculateOverflow(
        Rect(calculatedLeft, calculatedTop, dummyBounds.width, dummyBounds.height),
        viewportBounds)

Sides == {"top", "right", "bottom", "left"}

OverflowingSides == {side \in Sides : TentativeOverflow[side] > 0}

FitsViewport ==
    /\ dummyBounds.width <= viewportBounds.right - viewportBounds.left
    /\ dummyBounds.height <= viewportBounds.bottom - viewportBounds.top

\* C11: when the panel is no larger than the viewport and its tentative
\* rectangle overflows exactly one viewport edge, the placement has zero
\* overflow on that edge and keeps the anchor's coordinate on the other axis;
\* 200x100 at (1900, 10) in 1920x1080 gets left <= 1720 and top = 10, and
\* 300x300 at (10, 1000) gets top <= 780.
C11_SingleOverflowIsRemoved ==
    (placed /\ FitsViewport /\ Cardinality(OverflowingSides) = 1) =>
        \A side \in OverflowingSides :
            /\ FinalOverflow[side] = 0
            /\ IF side \in {"left", "right"}
               THEN calculatedTop = dummyBounds.top
               ELSE calculatedLeft = dummyBounds.left

\* The side C12 describes: smallest nonzero overflow, ties broken in the
\* order top, right, bottom, left.
Priority(side) ==
    CASE side = "top" -> 1 [] side = "right" -> 2
      [] side = "bottom" -> 3 [] side = "left" -> 4

SmallestNonzeroSide ==
    CHOOSE side \in OverflowingSides :
        \A other \in OverflowingSides :
            \/ TentativeOverflow[side] < TentativeOverflow[other]
            \/ /\ TentativeOverflow[side] = TentativeOverflow[other]
               /\ Priority(side) <= Priority(other)

\* C12: placement adjusts the panel along the side with the smallest nonzero
\* overflow (ties: top, right, bottom, left) and moves it away from that edge
\* by exactly that overflow; a side with zero overflow is never selected.
C12_SmallestNonzeroOverflowSide ==
    (placed /\ OverflowingSides # {}) =>
        LET side == SmallestNonzeroSide
            amount == TentativeOverflow[side]
        IN  /\ chosenSide(TentativeOverflow) = side
            /\ calculatedTop =
                   dummyBounds.top + (IF side = "top" THEN amount
                                      ELSE IF side = "bottom" THEN -amount ELSE 0)
            /\ calculatedLeft =
                   dummyBounds.left + (IF side = "left" THEN amount
                                       ELSE IF side = "right" THEN -amount ELSE 0)

\* C20: when all four clamped overflows are zero, calculatedTop and
\* calculatedLeft equal the measured top and left of the tentative position;
\* and for every input at most one of the two coordinates differs from the
\* tentative position.
C20_InViewportStaysAtAnchor ==
    placed =>
        /\ OverflowingSides = {} =>
            calculatedTop = dummyBounds.top /\ calculatedLeft = dummyBounds.left
        /\ calculatedTop = dummyBounds.top \/ calculatedLeft = dummyBounds.left

\* C20's cases: a placement of a panel inside the viewport, and (for the
\* second half) the placed state is also reached with a moved coordinate.
C20_Witness ==
    placed /\ OverflowingSides = {} /\ dummyBounds.left > 0 /\ dummyBounds.top > 0

\* Items with listeners in the document: what the pointer can hover.
HoverableItems ==
    {ItemOf(n, j) : n \in AttachedNodes, j \in 1..4}
        \cap {h \in Created \X (1..4) :
                h[2] \in ItemsOf(h[1]) /\ ~ItemObj(h[1], h[2]).divider}

\* C15: when the hover timer of an enabled Submenu entry fires uncancelled
\* with the pointer still inside the entry, a submenu is spawned: the owning
\* node's activeSubmenu is a new node built from the entry's children, attached
\* and in the registry.
C15_TimerFireSpawnsSubmenu ==
    Idle =>
        \A h \in pendingTimers :
            (/\ Attached(h[1])
             /\ ItemObj(h[1], h[2]).type = "object"
             /\ ItemObj(h[1], h[2]).enabled # "false") =>
                LET t == onTimeout(Heap, h, TRUE)
                    new == Len(menuObject) + 1
                IN  /\ Len(t.menuObject) = new
                    /\ t.activeSubmenu[h[1]] = new
                    /\ t.menuObject[new] = ItemObj(h[1], h[2]).ref
                    /\ new \in AttachedIn(t)
                    /\ new \in Range(t.activeMenus)

\* C16: in every reachable state at most one hover timer is pending, and it
\* is the one of the most recent hover-start; every hover-start leaves exactly
\* its own timer pending and a hover-end leaves none.
C16_SingleHoverTimer ==
    /\ Cardinality(pendingTimers) <= 1
    /\ pendingTimers \subseteq {submenuTimer}
    /\ Idle =>
        /\ resetHoverTimer(Heap).pendingTimers = {}
        /\ \A h \in HoverableItems :
            onMouseEntered(Heap, h[1], h[2]).pendingTimers = {h}

\* C16's case: a timer is pending while another item can be hovered.
C16_Witness ==
    Idle /\ pendingTimers # {} /\ HoverableItems \ pendingTimers # {}

\* C17: there is no reachable state in which a hover timer is pending while
\* the menu node owning the hovered entry is detached.
C17_NoTimerOnDetachedNode ==
    \A h \in pendingTimers : Attached(h[1])

\* C18: right after the click handler of an enabled Submenu entry of an
\* attached node p, no hover timer is pending and a new node n built from the
\* entry's children exists with n.parent = p, p.activeSubmenu = n, n attached
\* and in the registry, the root reference unchanged.
C18_ClickOpensSubmenu ==
    (path # << >> /\ callback = NoItem) =>
        LET p == Head(path)[1]
            j == Head(path)[2]
            t == onClick(Heap, p, j)
            n == Len(menuObject) + 1
        IN  (/\ Attached(p)
             /\ ItemObj(p, j).type = "object"
             /\ ItemObj(p, j).enabled # "false") =>
                /\ t.pendingTimers = {}
                /\ Len(t.menuObject) = n
                /\ t.menuObject[n] = ItemObj(p, j).ref
                /\ t.parentCtxMenuItem[n] = ToString(p)
                /\ t.activeSubmenu[p] = n
                /\ n \in AttachedIn(t)
                /\ n \in Range(t.activeMenus)
                /\ t.rootMenu = rootMenu

\* Elements within k activeSubmenu links of n, n included.
RECURSIVE ReachWithin(_, _)
ReachWithin(n, k) ==
    IF k = 0 \/ n = Null THEN {}
    ELSE {n} \cup ReachWithin(activeSubmenu[n], k - 1)

\* C19: the activeSubmenu links are acyclic in every reachable state, so
\* recursivelyCloseChildren terminates on every registry node, and it detaches
\* the chain below the node deepest-first.
C19_ChainAcyclicDeepestFirst ==
    /\ \A n \in Created :
        n \notin ReachWithin(activeSubmenu[n], Len(activeSubmenu))
    /\ \A n \in Range(activeMenus) :
        LET removed == closedBy(Heap, n)
        IN  /\ Range(removed) = ChainFrom(activeSubmenu[n])
            /\ removed # << >> =>
                /\ activeSubmenu[removed[1]] = Null
                /\ removed[Len(removed)] = activeSubmenu[n]
            /\ \A i \in 1..(Len(removed) - 1) :
                removed[i] = activeSubmenu[removed[i + 1]]

\* C19's case: a registry node with a chain of at least two open descendants.
C19_Witness ==
    \E n \in Range(activeMenus) : Len(closedBy(Heap, n)) >= 2

\* Menu objects that contain an item with none of click and divider set.
MalformedMenus ==
    {m \in MenuNames :
        \E i \in 1..Len(UserMenus[m]) : UserMenus[m][i] = MalformedItem}

\* C13: constructing a menu from an entry list with an entry that has none
\* of action callback, children and divider fails, no node for that menu is
\* added to the registry, and such an entry never reaches click handling.
C13_MalformedEntryRejected ==
    /\ \A n \in Range(activeMenus) : menuObject[n] \notin MalformedMenus
    /\ \A i \in 1..Len(path) : ItemObj(path[i][1], path[i][2]) # MalformedItem

\* C14: if the callback of a clicked Action entry opens a new root menu, then
\* when the handling of that click has finished, further listeners of the same
\* click included, the new root is attached and is the root reference.
C14_CallbackRootSurvives ==
    (Idle /\ openedRoot # Null) =>
        /\ Attached(openedRoot)
        /\ rootMenu = openedRoot

\* C14's case: the click has finished, its callback opened a root, and a
\* listener reached by bubbling created an element after that.
C14_Witness ==
    Idle /\ openedRoot # Null /\ Len(menuObject) > openedRoot

====
